---- MODULE Spec2Model ----
(***************************************************************************)
(* Model of port-anchor-adaptor's read-only valuation code (src/src/lib.rs *)
(* port_accessor and PortObligation::calculate_liquidity).                 *)
(*                                                                         *)
(* Account buffers are sequences of bytes (0..255) with the layout the     *)
(* source reads.  The machine integers are scaled: u64 is U64Bits bits     *)
(* wide, u128 twice and the fixed-point library's U192 three times that,   *)
(* and WAD (10^18 in the library) is a smaller scale below 2^U64Bits, so   *)
(* that the overflows the real widths allow can happen here as well.       *)
(*                                                                         *)
(* Spec calls the operations on full-length accounts as the lending        *)
(* program writes them; SpecRaw calls them on accounts cut short, with any *)
(* stale byte, or mutably borrowed by the caller; SpecBorrow runs the      *)
(* accessors one borrow and one drop of the data's RefCell at a time.      *)
(***************************************************************************)
EXTENDS Integers, Sequences, FiniteSets, TLC

VARIABLES
    account,    \* the AccountInfo handed to the accessors: its bytes and borrow state
    origin,     \* the lending program's record the bytes were packed from
    call,       \* the last operation called, with its arguments
    result      \* what that call returned

vars == <<account, origin, call, result>>

----------------------------------------------------------------------------
(* Bounds of the model *)

U64Bits == 8

WAD == 200

\* deposits plus borrows of one obligation (MAX_OBLIGATION_RESERVES in the lending program)
MaxReserves == 3

ReserveLen == 318

----------------------------------------------------------------------------
(* Program constants *)

PUBKEY_BYTES == 32

OBLIGATION_COLLATERAL_LEN == 56

OBLIGATION_LIQUIDITY_LEN == 80

ObligationLen == 916

ObligationDataStart == 140

U64Max == 2^U64Bits - 1

U128Max == 2^(2 * U64Bits) - 1

U192Max == 2^(3 * U64Bits) - 1

INITIAL_COLLATERAL_RATE == 1 * WAD

----------------------------------------------------------------------------
(* Results: Ok(v), Err(e) of std::result::Result; Panic is an abort of the  *)
(* call (a slice index out of range), which returns nothing.                *)

Ok(v) == [ok |-> TRUE, val |-> v]

Err(e) == [ok |-> FALSE, err |-> e]

Panic == [ok |-> FALSE, err |-> "Panic"]

NotCalled == [ok |-> FALSE, err |-> "NotCalled"]

----------------------------------------------------------------------------
(* Bytes *)

RECURSIVE from_le_bytes(_)
from_le_bytes(bs) ==
    IF bs = <<>> THEN 0 ELSE Head(bs) + 256 * from_le_bytes(Tail(bs))

RECURSIVE to_le_bytes(_, _)
to_le_bytes(v, n) ==
    IF n = 0 THEN <<>> ELSE <<v % 256>> \o to_le_bytes(v \div 256, n - 1)

Zeros(n) == [i \in 1..n |-> 0]

\* bytes[a..b] of a slice: the bytes at offsets a .. b-1
InRange(bytes, a, b) == a <= b /\ b <= Len(bytes)

Slice(bytes, a, b) == SubSeq(bytes, a + 1, b)

\* a 32-byte identifier, told apart by its first byte
Pubkey(i) == <<i>> \o Zeros(PUBKEY_BYTES - 1)

----------------------------------------------------------------------------
(* Fixed-point library (solana_maths and the lending crate's math): a      *)
(* Decimal is a U192 scaled by WAD, a Rate a U128 scaled by WAD.            *)

Decimal_from(v) == v * WAD

Decimal_zero == 0

try_add(a, b) == IF a + b > U192Max THEN Err("MathOverflow") ELSE Ok(a + b)

try_sub(a, b) == IF b > a THEN Err("MathOverflow") ELSE Ok(a - b)

\* checked_mul by WAD, then checked_div
try_div(a, b) ==
    IF a > U192Max \div WAD THEN Err("MathOverflow")
    ELSE IF b = 0 THEN Err("MathOverflow")
    ELSE Ok((a * WAD) \div b)

Rate_try_from(d) == IF d > U128Max THEN Err("MathOverflow") ELSE Ok(d)

try_floor_u64(d) ==
    IF d \div WAD > U64Max THEN Err("MathOverflow") ELSE Ok(d \div WAD)

\* mutant: the fraction is cut off instead of rounded up
try_ceil_u64_truncating(d) ==
    IF d \div WAD > U64Max THEN Err("MathOverflow") ELSE Ok(d \div WAD)

try_ceil_u64(d) ==
    IF d > U192Max - (WAD - 1) THEN Err("MathOverflow")
    ELSE IF (WAD - 1 + d) \div WAD > U64Max THEN Err("MathOverflow")
    ELSE Ok((WAD - 1 + d) \div WAD)

collateral_to_liquidity(rate, collateral_amount) ==
    LET q == try_div(Decimal_from(collateral_amount), rate)
    IN  IF ~q.ok THEN q ELSE try_floor_u64(q.val)

----------------------------------------------------------------------------
(* AccountInfo: the data buffer and its RefCell borrow state *)

\* mutant: the borrow flag of the account is not consulted
try_borrow_data_unchecked(acc) == Ok(acc.data)

try_borrow_data(acc) ==
    IF acc.mutBorrowed THEN Err("AccountBorrowFailed") ELSE Ok(acc.data)

\* the common shape  try_borrow_data()?; copy_from_slice(&bytes[a..b])
ReadRange(acc, a, b) ==
    LET bytes == try_borrow_data(acc)
    IN  IF ~bytes.ok THEN bytes
        ELSE IF ~InRange(bytes.val, a, b) THEN Panic
        ELSE Ok(Slice(bytes.val, a, b))

unpack_decimal(src) == from_le_bytes(src)

----------------------------------------------------------------------------
(* Reserve view *)

reserve_ltv(acc) ==
    LET r == ReadRange(acc, 304, 305)
    IN  IF ~r.ok THEN r ELSE Ok(from_le_bytes(r.val))

reserve_available_liquidity(acc) ==
    LET r == ReadRange(acc, 175, 183)
    IN  IF ~r.ok THEN r ELSE Ok(from_le_bytes(r.val))

reserve_borrowed_amount(acc) ==
    LET r == ReadRange(acc, 183, 199)
    IN  IF ~r.ok THEN r ELSE Ok(unpack_decimal(r.val))

reserve_market_price(acc) ==
    LET r == ReadRange(acc, 215, 231)
    IN  IF ~r.ok THEN r ELSE Ok(unpack_decimal(r.val))

reserve_oracle_pubkey(acc) == ReadRange(acc, 143, 175)

\* mutant: the available liquidity added without scaling it to whole units
reserve_total_liquidity_unscaled(acc) ==
    LET available_liquidity == reserve_available_liquidity(acc)
        borrowed_amount == reserve_borrowed_amount(acc)
    IN  IF ~available_liquidity.ok THEN available_liquidity
        ELSE IF ~borrowed_amount.ok THEN borrowed_amount
        ELSE try_add(borrowed_amount.val, available_liquidity.val)

reserve_total_liquidity(acc) ==
    LET available_liquidity == reserve_available_liquidity(acc)
        borrowed_amount == reserve_borrowed_amount(acc)
    IN  IF ~available_liquidity.ok THEN available_liquidity
        ELSE IF ~borrowed_amount.ok THEN borrowed_amount
        ELSE try_add(borrowed_amount.val, Decimal_from(available_liquidity.val))

reserve_liquidity_mint_pubkey(acc) == ReadRange(acc, 42, 74)

reserve_lp_mint_pubkey(acc) == ReadRange(acc, 231, 263)

reserve_mint_total(acc) ==
    LET r == ReadRange(acc, 263, 271)
    IN  IF ~r.ok THEN r ELSE Ok(from_le_bytes(r.val))

reserve_borrow_fee(acc) ==
    LET r == ReadRange(acc, 310, 318)
    IN  IF ~r.ok THEN r ELSE Ok(from_le_bytes(r.val))

\* mutant: the quotient taken the other way round
exchange_rate_quotient_inverted(mint_total_supply, total_liquidity) ==
    LET q == try_div(total_liquidity, Decimal_from(mint_total_supply))
    IN  IF ~q.ok THEN q ELSE Rate_try_from(q.val)

\* the quotient of the else branch: Decimal::from(supply).try_div(total), as a Rate
exchange_rate_quotient(mint_total_supply, total_liquidity) ==
    LET q == try_div(Decimal_from(mint_total_supply), total_liquidity)
    IN  IF ~q.ok THEN q ELSE Rate_try_from(q.val)

\* mutant: only the zero supply falls back to the initial rate
exchange_rate_supply_only(acc) ==
    LET mint_total_supply == reserve_mint_total(acc)
        total_liquidity == reserve_total_liquidity(acc)
    IN  IF ~mint_total_supply.ok THEN mint_total_supply
        ELSE IF ~total_liquidity.ok THEN total_liquidity
        ELSE IF mint_total_supply.val = 0
             THEN Ok(INITIAL_COLLATERAL_RATE)
        ELSE exchange_rate_quotient(mint_total_supply.val, total_liquidity.val)

exchange_rate(acc) ==
    LET mint_total_supply == reserve_mint_total(acc)
        total_liquidity == reserve_total_liquidity(acc)
    IN  IF ~mint_total_supply.ok THEN mint_total_supply
        ELSE IF ~total_liquidity.ok THEN total_liquidity
        ELSE IF mint_total_supply.val = 0 \/ total_liquidity.val = Decimal_zero
             THEN Ok(INITIAL_COLLATERAL_RATE)
        ELSE exchange_rate_quotient(mint_total_supply.val, total_liquidity.val)

\* mutant: every nonzero flag byte counts as stale
is_reserve_stale_nonzero(acc) ==
    LET r == ReadRange(acc, 9, 10)
    IN  IF ~r.ok THEN r ELSE Ok(r.val[1] # 0)

is_reserve_stale(acc) ==
    LET r == ReadRange(acc, 9, 10)
    IN  IF ~r.ok THEN r ELSE Ok(r.val[1] = 1)

----------------------------------------------------------------------------
(* Obligation view *)

obligation_deposits_count(acc) ==
    LET bytes == try_borrow_data(acc)
    IN  IF ~bytes.ok THEN bytes
        ELSE IF ~InRange(bytes.val, 138, 139) THEN Panic
        ELSE Ok(bytes.val[138 + 1])

obligation_borrows_count(acc) ==
    LET bytes == try_borrow_data(acc)
    IN  IF ~bytes.ok THEN bytes
        ELSE IF ~InRange(bytes.val, 139, 140) THEN Panic
        ELSE Ok(bytes.val[139 + 1])

\* mutant: the 16 bytes of the cumulative borrow rate are not skipped
borrow_start_index_no_skip(deposit_lens, n) ==
    ObligationDataStart
        + deposit_lens * OBLIGATION_COLLATERAL_LEN
        + n * OBLIGATION_LIQUIDITY_LEN
        + PUBKEY_BYTES

\* start_index of the borrowed-amount-wads field of borrow entry n
borrow_start_index(deposit_lens, n) ==
    ObligationDataStart
        + deposit_lens * OBLIGATION_COLLATERAL_LEN
        + n * OBLIGATION_LIQUIDITY_LEN
        + PUBKEY_BYTES
        + 16

\* start_index of the deposited-amount field of deposit entry n
deposit_start_index(n) ==
    ObligationDataStart + n * OBLIGATION_COLLATERAL_LEN + PUBKEY_BYTES

obligation_borrow_amount_wads(acc, n) ==
    LET bytes == try_borrow_data(acc)
        deposit_lens == obligation_deposits_count(acc)
        borrows_lens == obligation_borrows_count(acc)
    IN  IF ~bytes.ok THEN bytes
        ELSE IF ~deposit_lens.ok THEN deposit_lens
        ELSE IF ~borrows_lens.ok THEN borrows_lens
        ELSE IF n >= borrows_lens.val THEN Err("BorrowIndexOutOfBound")
        ELSE LET start_index == borrow_start_index(deposit_lens.val, n)
             IN  IF ~InRange(bytes.val, start_index, start_index + 16) THEN Panic
                 ELSE Ok(unpack_decimal(Slice(bytes.val, start_index, start_index + 16)))

\* mutant: the bound check is off by one
obligation_deposit_amount_off_by_one(acc, n) ==
    LET bytes == try_borrow_data(acc)
        deposit_lens == obligation_deposits_count(acc)
    IN  IF ~bytes.ok THEN bytes
        ELSE IF ~deposit_lens.ok THEN deposit_lens
        ELSE IF n > deposit_lens.val THEN Err("CollateralIndexOutOfBound")
        ELSE LET start_index == deposit_start_index(n)
             IN  IF ~InRange(bytes.val, start_index, start_index + 8) THEN Panic
                 ELSE Ok(from_le_bytes(Slice(bytes.val, start_index, start_index + 8)))

obligation_deposit_amount(acc, n) ==
    LET bytes == try_borrow_data(acc)
        deposit_lens == obligation_deposits_count(acc)
    IN  IF ~bytes.ok THEN bytes
        ELSE IF ~deposit_lens.ok THEN deposit_lens
        ELSE IF n >= deposit_lens.val THEN Err("CollateralIndexOutOfBound")
        ELSE LET start_index == deposit_start_index(n)
             IN  IF ~InRange(bytes.val, start_index, start_index + 8) THEN Panic
                 ELSE Ok(from_le_bytes(Slice(bytes.val, start_index, start_index + 8)))

\* mutant: a deposit that cannot be read counts as zero
obligation_liquidity_deposit_or_zero(acc, port_exchange_rate, deposit_index) ==
    LET amount == obligation_deposit_amount(acc, deposit_index)
    IN  IF ~amount.ok THEN Ok(0)
        ELSE collateral_to_liquidity(port_exchange_rate, amount.val)

\* the deposit operand of obligation_liquidity
obligation_liquidity_deposit(acc, port_exchange_rate, deposit_index) ==
    LET count == obligation_deposits_count(acc)
    IN  IF ~count.ok THEN count
        ELSE IF count.val = 0 THEN Ok(0)
        ELSE LET amount == obligation_deposit_amount(acc, deposit_index)
             IN  IF ~amount.ok THEN amount
                 ELSE collateral_to_liquidity(port_exchange_rate, amount.val)

\* the borrow operand of obligation_liquidity
obligation_liquidity_borrow(acc, borrow_index) ==
    LET count == obligation_borrows_count(acc)
    IN  IF ~count.ok THEN count
        ELSE IF count.val = 0 THEN Ok(Decimal_zero)
        ELSE obligation_borrow_amount_wads(acc, borrow_index)

\* mutant: a stale obligation is refused
obligation_liquidity_fresh_only(acc, port_exchange_rate, deposit_index, borrow_index) ==
    LET stale == ReadRange(acc, 9, 10)
        deposit == obligation_liquidity_deposit(acc, port_exchange_rate, deposit_index)
    IN  IF ~stale.ok THEN stale
        ELSE IF stale.val[1] = 1 THEN Err("ObligationStale")
        ELSE IF ~deposit.ok THEN deposit
        ELSE LET borrow == obligation_liquidity_borrow(acc, borrow_index)
             IN  IF ~borrow.ok THEN borrow
                 ELSE try_sub(Decimal_from(deposit.val), borrow.val)

\* mutant: the deposit is subtracted from without being made a Decimal
obligation_liquidity_unscaled(acc, port_exchange_rate, deposit_index, borrow_index) ==
    LET deposit == obligation_liquidity_deposit(acc, port_exchange_rate, deposit_index)
    IN  IF ~deposit.ok THEN deposit
        ELSE LET borrow == obligation_liquidity_borrow(acc, borrow_index)
             IN  IF ~borrow.ok THEN borrow
                 ELSE try_sub(deposit.val, borrow.val)

obligation_liquidity(acc, port_exchange_rate, deposit_index, borrow_index) ==
    LET deposit == obligation_liquidity_deposit(acc, port_exchange_rate, deposit_index)
    IN  IF ~deposit.ok THEN deposit
        ELSE LET borrow == obligation_liquidity_borrow(acc, borrow_index)
             IN  IF ~borrow.ok THEN borrow
                 ELSE try_sub(Decimal_from(deposit.val), borrow.val)

is_obligation_stale(acc) ==
    LET r == ReadRange(acc, 9, 10)
    IN  IF ~r.ok THEN r ELSE Ok(r.val[1] = 1)

----------------------------------------------------------------------------
(* The lending program's Obligation record and its packed layout *)

PackDeposit(c) ==
    Pubkey(c.deposit_reserve)
        \o to_le_bytes(c.deposited_amount, 8)
        \o to_le_bytes(c.market_value, 16)

PackBorrow(l) ==
    Pubkey(l.borrow_reserve)
        \o to_le_bytes(l.cumulative_borrow_rate_wads, 16)
        \o to_le_bytes(l.borrowed_amount_wads, 16)
        \o to_le_bytes(l.market_value, 16)

RECURSIVE Flatten(_)
Flatten(ss) == IF ss = <<>> THEN <<>> ELSE Head(ss) \o Flatten(Tail(ss))

PackObligation(o) ==
    LET head == <<1>> \o Zeros(8) \o <<o.stale>> \o Zeros(128)
                      \o <<Len(o.deposits), Len(o.borrows)>>
        body == Flatten([i \in 1..Len(o.deposits) |-> PackDeposit(o.deposits[i])])
                    \o Flatten([i \in 1..Len(o.borrows) |-> PackBorrow(o.borrows[i])])
    IN  head \o body \o Zeros(ObligationLen - Len(head) - Len(body))

\* Obligation::unpack, as far as calculate_liquidity reads the record; the stale
\* flag is unpacked as a bool, which only the bytes 0 and 1 are
UnpackObligation(data) ==
    IF Len(data) # ObligationLen THEN Err("InvalidAccountData")
    ELSE IF data[9 + 1] \notin {0, 1} THEN Err("InvalidAccountData")
    ELSE LET d == data[139]
             b == data[140]
             dAt(i) == ObligationDataStart + (i - 1) * OBLIGATION_COLLATERAL_LEN
             bAt(i) == ObligationDataStart + d * OBLIGATION_COLLATERAL_LEN
                           + (i - 1) * OBLIGATION_LIQUIDITY_LEN
         IN  Ok([deposits |-> [i \in 1..d |->
                    [deposit_reserve |-> Slice(data, dAt(i), dAt(i) + 32),
                     deposited_amount |-> from_le_bytes(Slice(data, dAt(i) + 32, dAt(i) + 40))]],
                 borrows |-> [i \in 1..b |->
                    [borrow_reserve |-> Slice(data, bAt(i), bAt(i) + 32),
                     borrowed_amount_wads |->
                         from_le_bytes(Slice(data, bAt(i) + 48, bAt(i) + 64))]]])

----------------------------------------------------------------------------
(* Valuation engine *)

\* iter().find_map(..): the index of the first entry on the reserve, 0 if none
FirstBorrowOn(self, reserve_pubkey) ==
    LET hits == {i \in 1..Len(self.borrows) : self.borrows[i].borrow_reserve = reserve_pubkey}
    IN  IF hits = {} THEN 0 ELSE CHOOSE i \in hits : \A j \in hits : i <= j

FirstDepositOn(self, reserve_pubkey) ==
    LET hits == {i \in 1..Len(self.deposits) : self.deposits[i].deposit_reserve = reserve_pubkey}
    IN  IF hits = {} THEN 0 ELSE CHOOSE i \in hits : \A j \in hits : i <= j

\* mutant: the last borrow on the reserve is taken, not the first
matched_borrow_last(self, reserve_pubkey) ==
    LET hits == {i \in 1..Len(self.borrows) : self.borrows[i].borrow_reserve = reserve_pubkey}
    IN  IF hits = {} THEN Decimal_zero
        ELSE self.borrows[CHOOSE i \in hits : \A j \in hits : i >= j].borrowed_amount_wads

matched_borrow(self, reserve_pubkey) ==
    LET i == FirstBorrowOn(self, reserve_pubkey)
    IN  IF i = 0 THEN Decimal_zero ELSE self.borrows[i].borrowed_amount_wads

matched_deposit(self, reserve_pubkey) ==
    LET i == FirstDepositOn(self, reserve_pubkey)
    IN  IF i = 0 THEN 0 ELSE self.deposits[i].deposited_amount

\* mutant: a debt equal to the collateral is already insolvent
net_liquidity_strict(exchange_rate_, deposit, borrow) ==
    LET liquidity == collateral_to_liquidity(exchange_rate_, deposit)
    IN  IF ~liquidity.ok THEN liquidity
        ELSE LET ceil == try_ceil_u64(borrow)
             IN  IF ~ceil.ok THEN ceil
                 ELSE IF ceil.val >= liquidity.val THEN Err("Insolvency")
                 ELSE Ok(liquidity.val - ceil.val)

\* mutant: the absolute difference is returned instead of a checked subtraction
net_liquidity_abs_diff(exchange_rate_, deposit, borrow) ==
    LET liquidity == collateral_to_liquidity(exchange_rate_, deposit)
    IN  IF ~liquidity.ok THEN liquidity
        ELSE LET ceil == try_ceil_u64(borrow)
             IN  IF ~ceil.ok THEN ceil
                 ELSE IF ceil.val > liquidity.val THEN Ok(ceil.val - liquidity.val)
                 ELSE Ok(liquidity.val - ceil.val)

\* collateral_to_liquidity(deposit)?.checked_sub(borrow.try_ceil_u64()?).ok_or(Insolvency)
net_liquidity(exchange_rate_, deposit, borrow) ==
    LET liquidity == collateral_to_liquidity(exchange_rate_, deposit)
    IN  IF ~liquidity.ok THEN liquidity
        ELSE LET ceil == try_ceil_u64(borrow)
             IN  IF ~ceil.ok THEN ceil
                 ELSE IF ceil.val > liquidity.val THEN Err("Insolvency")
                 ELSE Ok(liquidity.val - ceil.val)

calculate_liquidity(self, reserve_pubkey, exchange_rate_) ==
    net_liquidity(exchange_rate_,
                  matched_deposit(self, reserve_pubkey),
                  matched_borrow(self, reserve_pubkey))

----------------------------------------------------------------------------
(* The lending program's Reserve record and its packed layout *)

PackReserve(r) ==
    LET fields == <<1>> \o Zeros(8) \o <<r.stale>> \o Zeros(32)
                      \o Pubkey(r.liquidity_mint)
                      \o Zeros(69)
                      \o Pubkey(r.oracle)
                      \o to_le_bytes(r.available_liquidity, 8)
                      \o to_le_bytes(r.borrowed_amount_wads, 16)
                      \o to_le_bytes(r.cumulative_borrow_rate_wads, 16)
                      \o to_le_bytes(r.market_price, 16)
                      \o Pubkey(r.collateral_mint)
                      \o to_le_bytes(r.mint_total_supply, 8)
                      \o Zeros(33)
                      \o <<r.loan_to_value_ratio>>
                      \o Zeros(5)
                      \o to_le_bytes(r.borrow_fee_wad, 8)
    IN  fields \o Zeros(ReserveLen - Len(fields))

\* Reserve::unpack, as far as the model keeps the record: the length is checked and
\* the stale flag is unpacked as a bool
UnpackReserve(data) ==
    IF Len(data) # ReserveLen THEN Err("InvalidAccountData")
    ELSE IF data[9 + 1] \notin {0, 1} THEN Err("InvalidAccountData")
    ELSE Ok([available_liquidity |-> from_le_bytes(Slice(data, 175, 183)),
             borrowed_amount_wads |-> from_le_bytes(Slice(data, 183, 199)),
             mint_total_supply |-> from_le_bytes(Slice(data, 263, 271))])

\* try_deserialize of the wrapper type the account's kind selects
try_deserialize(kind, buf) ==
    IF kind = "obligation" THEN UnpackObligation(buf) ELSE UnpackReserve(buf)

\* mutant: the wrapper writes the version byte of a fresh record
try_serialize_version(self, writer) ==
    [writer |-> writer \o <<0>>, ret |-> Ok("unit")]

\* AccountSerialize::try_serialize of the wrapper types: writer is what has been
\* written so far; nothing is appended to it and the call succeeds
try_serialize(self, writer) ==
    [writer |-> writer, ret |-> Ok("unit")]

\* the writer runs over the account's buffer from its first byte on
Overwrite(data, written) ==
    written \o SubSeq(data, Len(written) + 1, Len(data))

----------------------------------------------------------------------------
(* Inputs *)

ReserveIds == {1, 2}

DepositAmounts == <<100, 40, U64Max>>

\* 50.4, 5, just above 39, and the largest 16-byte value
BorrowAmounts == <<50 * WAD + (2 * WAD) \div 5, 5 * WAD, 39 * WAD + 1, U128Max>>

\* 0, 0.5 and 1.0
RateInputs == {0, WAD \div 2, WAD}

IndexInputs == (0..MaxReserves) \cup {8, 9, 10, 255}

LiquidityIndexInputs == {0, 1, 255}

\* entry i of a list takes the amounts in turn, starting at the k-th
Turn(amounts, k, i) == amounts[((k + i - 2) % Len(amounts)) + 1]

DepositLists(d) ==
    { [i \in 1..d |-> [deposit_reserve |-> ids[i],
                       deposited_amount |-> Turn(DepositAmounts, k, i),
                       market_value |-> 7 * WAD]] :
        ids \in [1..d -> ReserveIds],
        k \in IF d = 0 THEN {1} ELSE 1..Len(DepositAmounts) }

BorrowLists(b) ==
    { [i \in 1..b |-> [borrow_reserve |-> ids[i],
                       cumulative_borrow_rate_wads |-> WAD,
                       borrowed_amount_wads |-> Turn(BorrowAmounts, k, i),
                       market_value |-> 9 * WAD]] :
        ids \in [1..b -> ReserveIds],
        k \in IF b = 0 THEN {1} ELSE 1..Len(BorrowAmounts) }

Obligations ==
    UNION { { [stale |-> 0, deposits |-> ds, borrows |-> bs] :
                ds \in DepositLists(d), bs \in BorrowLists(b) } :
            d \in 0..MaxReserves, b \in 0..MaxReserves } 

ValidObligations == { o \in Obligations : Len(o.deposits) + Len(o.borrows) <= MaxReserves }

\* obligations that fill the buffer: the lending program's limit of 10 entries, as
\* 10 deposits, and as 1 deposit with 9 borrows
FullObligations ==
    { [stale |-> 0,
       deposits |-> [i \in 1..db[1] |-> [deposit_reserve |-> 1 + (i % 2),
                                         deposited_amount |-> Turn(DepositAmounts, 1, i),
                                         market_value |-> 7 * WAD]],
       borrows |-> [i \in 1..db[2] |-> [borrow_reserve |-> 1 + (i % 2),
                                        cumulative_borrow_rate_wads |-> WAD,
                                        borrowed_amount_wads |-> Turn(BorrowAmounts, 1, i),
                                        market_value |-> 9 * WAD]]] :
      db \in {<<10, 0>>, <<1, 9>>} }

Reserves ==
    [stale : {0, 1},
     liquidity_mint : {11},
     oracle : {12},
     collateral_mint : {13},
     available_liquidity : {0, 100, U64Max},
     borrowed_amount_wads : {0, 1, 50 * WAD + (2 * WAD) \div 5, U128Max},
     cumulative_borrow_rate_wads : {WAD},
     market_price : {3 * WAD},
     mint_total_supply : {0, 100, 200},
     loan_to_value_ratio : {80},
     borrow_fee_wad : {1}]

----------------------------------------------------------------------------
(* The state machine: an account is loaded, then the operations are called *)

Init ==
    /\ \/ \E o \in ValidObligations \cup FullObligations :
            /\ origin = o
            /\ account = [kind |-> "obligation", data |-> PackObligation(o),
                          mutBorrowed |-> FALSE]
       \/ \E r \in Reserves :
            /\ origin = r
            /\ account = [kind |-> "reserve", data |-> PackReserve(r),
                          mutBorrowed |-> FALSE]
    /\ call = [op |-> "none"]
    /\ result = NotCalled

Returns(c, r) ==
    /\ call' = c
    /\ result' = r
    /\ UNCHANGED <<account, origin>>

ReserveAvailableLiquidity ==
    /\ account.kind = "reserve"
    /\ Returns([op |-> "reserve_available_liquidity"], reserve_available_liquidity(account))

ReserveBorrowedAmount ==
    /\ account.kind = "reserve"
    /\ Returns([op |-> "reserve_borrowed_amount"], reserve_borrowed_amount(account))

ReserveTotalLiquidity ==
    /\ account.kind = "reserve"
    /\ Returns([op |-> "reserve_total_liquidity"], reserve_total_liquidity(account))

ReserveLtv ==
    /\ account.kind = "reserve"
    /\ Returns([op |-> "reserve_ltv"], reserve_ltv(account))

ReserveMarketPrice ==
    /\ account.kind = "reserve"
    /\ Returns([op |-> "reserve_market_price"], reserve_market_price(account))

ReserveOraclePubkey ==
    /\ account.kind = "reserve"
    /\ Returns([op |-> "reserve_oracle_pubkey"], reserve_oracle_pubkey(account))

ReserveLiquidityMintPubkey ==
    /\ account.kind = "reserve"
    /\ Returns([op |-> "reserve_liquidity_mint_pubkey"], reserve_liquidity_mint_pubkey(account))

ReserveLpMintPubkey ==
    /\ account.kind = "reserve"
    /\ Returns([op |-> "reserve_lp_mint_pubkey"], reserve_lp_mint_pubkey(account))

ReserveBorrowFee ==
    /\ account.kind = "reserve"
    /\ Returns([op |-> "reserve_borrow_fee"], reserve_borrow_fee(account))

IsReserveStale ==
    /\ account.kind = "reserve"
    /\ Returns([op |-> "is_reserve_stale"], is_reserve_stale(account))

IsObligationStale ==
    /\ account.kind = "obligation"
    /\ Returns([op |-> "is_obligation_stale"], is_obligation_stale(account))

ReserveMintTotal ==
    /\ account.kind = "reserve"
    /\ Returns([op |-> "reserve_mint_total"], reserve_mint_total(account))

ExchangeRate ==
    /\ account.kind = "reserve"
    /\ Returns([op |-> "exchange_rate"], exchange_rate(account))

ObligationDepositsCount ==
    /\ account.kind = "obligation"
    /\ Returns([op |-> "obligation_deposits_count"], obligation_deposits_count(account))

ObligationBorrowsCount ==
    /\ account.kind = "obligation"
    /\ Returns([op |-> "obligation_borrows_count"], obligation_borrows_count(account))

ObligationDepositAmount ==
    /\ account.kind = "obligation"
    /\ \E n \in IndexInputs :
          Returns([op |-> "obligation_deposit_amount", n |-> n],
                  obligation_deposit_amount(account, n))

ObligationBorrowAmountWads ==
    /\ account.kind = "obligation"
    /\ \E n \in IndexInputs :
          Returns([op |-> "obligation_borrow_amount_wads", n |-> n],
                  obligation_borrow_amount_wads(account, n))

ObligationLiquidity ==
    /\ account.kind = "obligation"
    /\ \E rate \in RateInputs, di \in LiquidityIndexInputs, bi \in LiquidityIndexInputs :
          Returns([op |-> "obligation_liquidity", rate |-> rate,
                   deposit_index |-> di, borrow_index |-> bi],
                  obligation_liquidity(account, rate, di, bi))

\* PortObligation::try_deserialize of the account's data, then calculate_liquidity
CalculateLiquidity ==
    /\ account.kind = "obligation"
    /\ try_borrow_data(account).ok
    /\ UnpackObligation(account.data).ok
    /\ \E id \in ReserveIds, rate \in RateInputs :
          Returns([op |-> "calculate_liquidity", reserve |-> id, rate |-> rate],
                  calculate_liquidity(UnpackObligation(account.data).val, Pubkey(id), rate))

\* a loaded wrapper is serialized back over the account's buffer
TrySerialize ==
    /\ ~account.mutBorrowed
    /\ try_deserialize(account.kind, account.data).ok
    /\ LET self == try_deserialize(account.kind, account.data).val
           out == try_serialize(self, <<>>)
       IN  /\ account' = [account EXCEPT !.data = Overwrite(@, out.writer)]
           /\ call' = [op |-> "try_serialize"]
           /\ result' = out.ret
    /\ UNCHANGED origin

Next ==
    \/ ReserveAvailableLiquidity
    \/ ReserveBorrowedAmount
    \/ ReserveTotalLiquidity
    \/ ReserveMintTotal
    \/ ReserveLtv
    \/ ReserveMarketPrice
    \/ ReserveOraclePubkey
    \/ ReserveLiquidityMintPubkey
    \/ ReserveLpMintPubkey
    \/ ReserveBorrowFee
    \/ IsReserveStale
    \/ IsObligationStale
    \/ ExchangeRate
    \/ ObligationDepositsCount
    \/ ObligationBorrowsCount
    \/ ObligationDepositAmount
    \/ ObligationBorrowAmountWads
    \/ ObligationLiquidity
    \/ CalculateLiquidity
    \/ TrySerialize

Spec == Init /\ [][Next]_vars

----------------------------------------------------------------------------
(* Accounts as any caller may hand them over: the accessors take an AccountInfo
   and check neither its owner nor its length, so the buffer may be cut short,
   may carry any byte as its stale flag, and may be mutably borrowed by the
   caller while the accessor runs *)

StaleBytes == {0, 1, 2, 255}

\* lengths that end just before, inside and just after the ranges the accessors read
ObligationCuts == {0, 9, 10, 138, 139, 179, 259, ObligationLen}

ReserveCuts == {0, 9, 10, 182, 198, 270, 317, ReserveLen}

Cut(data, len) == SubSeq(data, 1, len)

\* at most one deposit and one borrow, both on reserve 1
RawObligations ==
    { o \in ValidObligations :
        /\ Len(o.deposits) <= 1
        /\ Len(o.borrows) <= 1
        /\ \A i \in DOMAIN o.deposits :
              /\ o.deposits[i].deposit_reserve = 1
              /\ o.deposits[i].deposited_amount = DepositAmounts[1]
        /\ \A i \in DOMAIN o.borrows :
              /\ o.borrows[i].borrow_reserve = 1
              /\ o.borrows[i].borrowed_amount_wads = BorrowAmounts[1] }

RawReserves ==
    { r \in Reserves :
        /\ r.stale = 0
        /\ r.available_liquidity = 100
        /\ r.borrowed_amount_wads \in {0, BorrowAmounts[1]}
        /\ r.mint_total_supply \in {0, 100} }

InitRaw ==
    /\ \E s \in StaleBytes, mb \in BOOLEAN :
          \/ \E o \in RawObligations, len \in ObligationCuts :
                /\ origin = [o EXCEPT !.stale = s]
                /\ account = [kind |-> "obligation",
                              data |-> Cut(PackObligation(origin), len),
                              mutBorrowed |-> mb]
          \/ \E r \in RawReserves, len \in ReserveCuts :
                /\ origin = [r EXCEPT !.stale = s]
                /\ account = [kind |-> "reserve",
                              data |-> Cut(PackReserve(origin), len),
                              mutBorrowed |-> mb]
    /\ call = [op |-> "none"]
    /\ result = NotCalled

SpecRaw == InitRaw /\ [][Next]_vars

----------------------------------------------------------------------------
(* What the claims speak of, read off the record the lending program packed *)

IsObligation == account.kind = "obligation"

IsReserve == account.kind = "reserve"

\* the least whole number of units not below the fixed-point amount x
Ceiling(x) == (x \div WAD) + (IF x % WAD = 0 THEN 0 ELSE 1)

RECURSIVE FirstOn(_, _, _)
\* the position of the first of the entries (their reserve ids) on reserve id, from i on
FirstOn(ids, id, i) ==
    IF i > Len(ids) THEN 0
    ELSE IF ids[i] = id THEN i
    ELSE FirstOn(ids, id, i + 1)

DepositPos(id) ==
    FirstOn([i \in 1..Len(origin.deposits) |-> origin.deposits[i].deposit_reserve], id, 1)

BorrowPos(id) ==
    FirstOn([i \in 1..Len(origin.borrows) |-> origin.borrows[i].borrow_reserve], id, 1)

\* D and B of the claims: the first entry on the reserve, zero if there is none
MatchedD(id) ==
    IF DepositPos(id) = 0 THEN 0 ELSE origin.deposits[DepositPos(id)].deposited_amount

MatchedB(id) ==
    IF BorrowPos(id) = 0 THEN 0 ELSE origin.borrows[BorrowPos(id)].borrowed_amount_wads

Calculated == IsObligation /\ call.op = "calculate_liquidity"

\* the obligation the call deserialized
Deserialized == UnpackObligation(account.data).val

----------------------------------------------------------------------------
(* C1 *)

\* C1, as claimed: calculate_liquidity fails with Insolvency if and only if the
\* ceiling of the matched borrow exceeds the converted matched deposit.
C1_InsolvencyIff ==
    Calculated =>
        LET liquidity == collateral_to_liquidity(call.rate, MatchedD(call.reserve))
        IN  (result = Err("Insolvency"))
                <=> (liquidity.ok /\ Ceiling(MatchedB(call.reserve)) > liquidity.val)

\* C1, amended: calculate_liquidity fails with Insolvency if and only if the deposit
\* converts, the ceiling of the borrow fits in a u64 and exceeds the converted
\* deposit; when a conversion fails the call fails with MathOverflow, and it
\* succeeds in every other case.
C1_InsolvencyIffConversionsSucceed ==
    Calculated =>
        LET liquidity == collateral_to_liquidity(call.rate, MatchedD(call.reserve))
            ceil == Ceiling(MatchedB(call.reserve))
            converts == liquidity.ok /\ ceil <= U64Max
        IN  /\ (result = Err("Insolvency")) <=> (converts /\ ceil > liquidity.val)
            /\ ~converts <=> (result = Err("MathOverflow"))
            /\ (converts /\ ceil <= liquidity.val) <=> result.ok

\* C1 witness: an Insolvency failure with a deposit and a borrow on the reserve
C1_Witness ==
    /\ Calculated
    /\ result = Err("Insolvency")
    /\ BorrowPos(call.reserve) # 0
    /\ DepositPos(call.reserve) # 0

----------------------------------------------------------------------------
(* C2 *)

\* C2: a successful calculate_liquidity returns the converted first matching deposit
\* (zero if none) less the ceiling of the first matching borrow (zero if none).
C2_ResultIsDepositLessCeiling ==
    (Calculated /\ result.ok) =>
        result.val = collateral_to_liquidity(call.rate, MatchedD(call.reserve)).val
                        - Ceiling(MatchedB(call.reserve))

\* C2 witness: deposit 100 at rate 1.0 against a first borrow of 50.4, with a second
\* borrow of 5 on the same reserve, gives 49
C2_Witness ==
    /\ Calculated
    /\ call.rate = WAD
    /\ MatchedD(call.reserve) = 100
    /\ MatchedB(call.reserve) = 50 * WAD + (2 * WAD) \div 5
    /\ \E i \in 1..Len(origin.borrows) :
          /\ i > BorrowPos(call.reserve)
          /\ origin.borrows[i].borrow_reserve = call.reserve
          /\ origin.borrows[i].borrowed_amount_wads = 5 * WAD
    /\ result = Ok(49)

----------------------------------------------------------------------------
(* C3 *)

U64Inputs == {0, 1, 40, 100, 200, U64Max}

WadInputs == {0, 1, 5 * WAD, 39 * WAD + 1, 50 * WAD + (2 * WAD) \div 5, U64Max * WAD, U128Max}

\* calculate_liquidity of the call, on the obligation with the matched borrow set to w
WithBorrow(w) ==
    calculate_liquidity(
        [Deserialized EXCEPT !.borrows[BorrowPos(call.reserve)].borrowed_amount_wads = w],
        Pubkey(call.reserve), call.rate)

\* the same with the matched deposit set to d
WithDeposit(d) ==
    calculate_liquidity(
        [Deserialized EXCEPT !.deposits[DepositPos(call.reserve)].deposited_amount = d],
        Pubkey(call.reserve), call.rate)

\* a larger matched borrow never gives a larger result, nor a success after a failure
BorrowMonotone ==
    (Calculated /\ BorrowPos(call.reserve) # 0) =>
        \A w \in WadInputs :
            (w >= MatchedB(call.reserve) /\ WithBorrow(w).ok) =>
                (result.ok /\ WithBorrow(w).val <= result.val)

\* C3, as claimed: the result never increases with the matched borrow; with the
\* matched deposit it never decreases, a success stays a success, and only an
\* Insolvency failure can become a success.
C3_Monotone ==
    /\ BorrowMonotone
    /\ (Calculated /\ DepositPos(call.reserve) # 0) =>
          \A d \in U64Inputs :
              d >= MatchedD(call.reserve) =>
                  /\ result.ok => (WithDeposit(d).ok /\ WithDeposit(d).val >= result.val)
                  /\ (~result.ok /\ WithDeposit(d).ok) => result = Err("Insolvency")

\* C3, amended: the result never increases with the matched borrow; with the
\* matched deposit a success never becomes smaller and never becomes Insolvency,
\* but it becomes a MathOverflow failure when the larger deposit no longer
\* converts to a u64; only an Insolvency failure can become a success.
C3_MonotoneUpToOverflow ==
    /\ BorrowMonotone
    /\ (Calculated /\ DepositPos(call.reserve) # 0) =>
          \A d \in U64Inputs :
              d >= MatchedD(call.reserve) =>
                  /\ (result.ok /\ WithDeposit(d).ok) => WithDeposit(d).val >= result.val
                  /\ (result.ok /\ ~WithDeposit(d).ok) =>
                        /\ WithDeposit(d) = Err("MathOverflow")
                        /\ ~collateral_to_liquidity(call.rate, d).ok
                  /\ (~result.ok /\ WithDeposit(d).ok) => result = Err("Insolvency")

\* C3 witness: a success that a larger borrow makes smaller and another turns into
\* a failure, and that a larger deposit makes larger
C3_Witness ==
    /\ Calculated
    /\ result.ok
    /\ BorrowPos(call.reserve) # 0
    /\ DepositPos(call.reserve) # 0
    /\ \E w \in WadInputs :
          w > MatchedB(call.reserve) /\ WithBorrow(w).ok /\ WithBorrow(w).val < result.val
    /\ \E w \in WadInputs : w > MatchedB(call.reserve) /\ WithBorrow(w) = Err("Insolvency")
    /\ \E d \in U64Inputs :
          d > MatchedD(call.reserve) /\ WithDeposit(d).ok /\ WithDeposit(d).val > result.val

----------------------------------------------------------------------------
(* C4, C5 *)

Liquidated == IsObligation /\ call.op = "obligation_liquidity"

DepositCount == Len(origin.deposits)

BorrowCount == Len(origin.borrows)

DepositIndexOut == DepositCount # 0 /\ call.deposit_index >= DepositCount

BorrowIndexOut == BorrowCount # 0 /\ call.borrow_index >= BorrowCount

\* Dl of the claims: the deposit at deposit_index in liquidity units, 0 without deposits
DepositLiquidity ==
    IF DepositCount = 0 THEN Ok(0)
    ELSE IF DepositIndexOut THEN Err("CollateralIndexOutOfBound")
    ELSE collateral_to_liquidity(call.rate,
             origin.deposits[call.deposit_index + 1].deposited_amount)

\* B of the claims: the borrow at borrow_index, zero without borrows
BorrowWads ==
    IF BorrowCount = 0 THEN Ok(0)
    ELSE IF BorrowIndexOut THEN Err("BorrowIndexOutOfBound")
    ELSE Ok(origin.borrows[call.borrow_index + 1].borrowed_amount_wads)

\* C4, as claimed: obligation_liquidity fails with Insolvency whenever the borrow at
\* borrow_index exceeds the deposit at deposit_index converted to liquidity units
\* (the deposit being 0 when there are no deposits).
C4_InsolvencyWhenDebtExceedsDeposit ==
    (/\ Liquidated
     /\ DepositLiquidity.ok
     /\ BorrowWads.ok
     /\ BorrowWads.val > DepositLiquidity.val * WAD)
        => result = Err("Insolvency")

\* C5, as claimed: a successful obligation_liquidity returns Decimal(Dl) - B; a
\* nonzero count with an index at or past it fails with the matching out-of-bound
\* error (the collateral one when both are out).
C5_ValueAndBoundErrors ==
    Liquidated =>
        /\ result.ok =>
              /\ DepositLiquidity.ok
              /\ BorrowWads.ok
              /\ result.val = DepositLiquidity.val * WAD - BorrowWads.val
        /\ DepositIndexOut => result = Err("CollateralIndexOutOfBound")
        /\ (BorrowIndexOut /\ ~DepositIndexOut) => result = Err("BorrowIndexOutOfBound")

\* C5, amended: a successful obligation_liquidity returns Decimal(Dl) - B; the
\* deposit side is settled first: a deposit index out of bound fails with
\* CollateralIndexOutOfBound, a deposit that does not convert fails with
\* MathOverflow, and only then does a borrow index out of bound fail with
\* BorrowIndexOutOfBound.
C5_ValueAndBoundErrorsDepositFirst ==
    Liquidated =>
        /\ result.ok =>
              /\ DepositLiquidity.ok
              /\ BorrowWads.ok
              /\ result.val = DepositLiquidity.val * WAD - BorrowWads.val
        /\ DepositIndexOut => result = Err("CollateralIndexOutOfBound")
        /\ ~DepositLiquidity.ok => result = DepositLiquidity
        /\ (BorrowIndexOut /\ DepositLiquidity.ok) => result = Err("BorrowIndexOutOfBound")

\* C5 witness: a success with both operands taken from entries, the deposit from
\* the second one and converted at rate 0.5, the borrow with a fraction
C5_Witness ==
    /\ Liquidated
    /\ result.ok
    /\ DepositCount = 2 /\ call.deposit_index = 1
    /\ BorrowCount = 1 /\ call.borrow_index = 0
    /\ call.rate = WAD \div 2
    /\ BorrowWads.val % WAD # 0
    /\ result.val > 0

----------------------------------------------------------------------------
(* C6, C7 *)

DepositRead == IsObligation /\ call.op = "obligation_deposit_amount"

BorrowRead == IsObligation /\ call.op = "obligation_borrow_amount_wads"

\* C6: on an obligation buffer of full length, obligation_deposit_amount(n) fails
\* with CollateralIndexOutOfBound if n is at or past the deposit count and succeeds
\* otherwise, and obligation_borrow_amount_wads(n) likewise with
\* BorrowIndexOutOfBound and the borrow count.
C6_IndexBounds ==
    /\ DepositRead =>
          IF call.n >= DepositCount THEN result = Err("CollateralIndexOutOfBound")
          ELSE result.ok
    /\ BorrowRead =>
          IF call.n >= BorrowCount THEN result = Err("BorrowIndexOutOfBound")
          ELSE result.ok

\* C6 witness: in a buffer filled to its end by 1 deposit and 9 borrows, the last
\* borrow is read
C6_Witness ==
    /\ BorrowRead
    /\ Len(account.data) = ObligationLen
    /\ DepositCount = 1
    /\ BorrowCount = 9
    /\ borrow_start_index(DepositCount, BorrowCount) - 48 = ObligationLen
    /\ call.n = BorrowCount - 1
    /\ result.ok

\* the byte ranges of the packed entries
DepositEntryStart(i) == 140 + i * OBLIGATION_COLLATERAL_LEN

BorrowEntryStart(i) ==
    140 + DepositCount * OBLIGATION_COLLATERAL_LEN + i * OBLIGATION_LIQUIDITY_LEN

\* C7: on a buffer packed with d deposit entries then b borrow entries from byte 140,
\* obligation_deposit_amount(n) returns the deposited amount of the n-th deposit,
\* read at 140 + n*stride + 32, and obligation_borrow_amount_wads(n) returns the
\* borrowed amount of the n-th borrow, read at 140 + d*stride + n*stride + 32 + 16,
\* inside that entry.
C7_RoundTrip ==
    /\ (DepositRead /\ call.n < DepositCount) =>
          /\ result = Ok(origin.deposits[call.n + 1].deposited_amount)
          /\ deposit_start_index(call.n) = DepositEntryStart(call.n) + 32
          /\ deposit_start_index(call.n) + 8 <= DepositEntryStart(call.n + 1)
    /\ (BorrowRead /\ call.n < BorrowCount) =>
          /\ result = Ok(origin.borrows[call.n + 1].borrowed_amount_wads)
          /\ borrow_start_index(DepositCount, call.n) = BorrowEntryStart(call.n) + 32 + 16
          /\ borrow_start_index(DepositCount, call.n) + 16 <= BorrowEntryStart(call.n + 1)

\* C7 witness: the first borrow is read behind two deposits, and fills more than
\* one byte
C7_Witness ==
    /\ BorrowRead
    /\ DepositCount = 2
    /\ BorrowCount = 1
    /\ call.n = 0
    /\ result = Ok(origin.borrows[1].borrowed_amount_wads)
    /\ result.val > U64Max

----------------------------------------------------------------------------
(* C8, C9, C10 *)

\* borrowed amount plus available liquidity, in WADs, as exact integers
TotalLiquidityWads == origin.borrowed_amount_wads + origin.available_liquidity * WAD

\* mint supply over total liquidity as a fixed-point quotient, rounded down
SupplyOverLiquidity == (origin.mint_total_supply * WAD * WAD) \div TotalLiquidityWads

RateAsked == IsReserve /\ call.op = "exchange_rate"

\* C8: exchange_rate returns the initial rate whenever the mint supply is 0, and
\* whenever the total liquidity is 0; it does not divide by zero.
C8_InitialRateOnZero ==
    (RateAsked /\ (origin.mint_total_supply = 0 \/ TotalLiquidityWads = 0))
        => result = Ok(INITIAL_COLLATERAL_RATE)

\* C8 witness: no liquidity at all under a nonzero supply
C8_Witness ==
    /\ RateAsked
    /\ origin.mint_total_supply # 0
    /\ TotalLiquidityWads = 0
    /\ result = Ok(WAD)

\* C9, as claimed: with supply and total liquidity both nonzero exchange_rate
\* returns the rate supply / total liquidity.
C9_RateIsSupplyOverLiquidity ==
    (RateAsked /\ origin.mint_total_supply # 0 /\ TotalLiquidityWads # 0)
        => result = Ok(SupplyOverLiquidity)

\* C9, amended: with supply and total liquidity both nonzero exchange_rate returns
\* the rate supply / total liquidity (rounded down to a multiple of 1/WAD) if that
\* fits the Rate's 128 bits, and fails with MathOverflow if it does not.
C9_RateIsSupplyOverLiquidityIfItFits ==
    (RateAsked /\ origin.mint_total_supply # 0 /\ TotalLiquidityWads # 0)
        => result = IF SupplyOverLiquidity <= U128Max THEN Ok(SupplyOverLiquidity)
                    ELSE Err("MathOverflow")

\* C9 witness: supply twice the liquidity, nothing borrowed, gives rate 2.0
C9_Witness ==
    /\ RateAsked
    /\ origin.mint_total_supply = 200
    /\ origin.available_liquidity = 100
    /\ origin.borrowed_amount_wads = 0
    /\ result = Ok(2 * WAD)

TotalAsked == IsReserve /\ call.op = "reserve_total_liquidity"

\* C10: reserve_total_liquidity returns the borrowed amount plus the available
\* liquidity scaled to whole units, exactly, and fails if the sum is out of the
\* Decimal's range.
C10_TotalIsBorrowedPlusAvailable ==
    TotalAsked =>
        result = IF TotalLiquidityWads <= U192Max THEN Ok(TotalLiquidityWads)
                 ELSE Err("MathOverflow")

\* C10 witness: the largest borrowed amount and available liquidity, with a
\* fraction in the sum
C10_Witness ==
    /\ TotalAsked
    /\ origin.borrowed_amount_wads = U128Max
    /\ origin.available_liquidity = U64Max
    /\ result = Ok(U128Max + U64Max * WAD)
    /\ result.val % WAD # 0

----------------------------------------------------------------------------
(* C11 *)

BufferAccessors ==
    {"reserve_ltv", "reserve_available_liquidity", "reserve_borrowed_amount",
     "reserve_market_price", "reserve_oracle_pubkey", "reserve_total_liquidity",
     "reserve_liquidity_mint_pubkey", "reserve_lp_mint_pubkey", "reserve_mint_total",
     "reserve_borrow_fee", "obligation_deposits_count", "obligation_borrows_count",
     "obligation_deposit_amount", "obligation_borrow_amount_wads",
     "is_reserve_stale", "is_obligation_stale"}

\* the end of the byte range the called accessor needs of this buffer
RequiredLen ==
    CASE call.op = "reserve_ltv" -> 305
      [] call.op = "reserve_available_liquidity" -> 183
      [] call.op = "reserve_borrowed_amount" -> 199
      [] call.op = "reserve_market_price" -> 231
      [] call.op = "reserve_oracle_pubkey" -> 175
      [] call.op = "reserve_total_liquidity" -> 199
      [] call.op = "reserve_liquidity_mint_pubkey" -> 74
      [] call.op = "reserve_lp_mint_pubkey" -> 263
      [] call.op = "reserve_mint_total" -> 271
      [] call.op = "reserve_borrow_fee" -> 318
      [] call.op = "obligation_deposits_count" -> 139
      [] call.op = "obligation_borrows_count" -> 140
      [] call.op = "obligation_deposit_amount" ->
            IF Len(account.data) < 139 \/ call.n >= account.data[139] THEN 139
            ELSE deposit_start_index(call.n) + 8
      [] call.op = "obligation_borrow_amount_wads" ->
            IF Len(account.data) < 140 \/ call.n >= account.data[140] THEN 140
            ELSE borrow_start_index(account.data[139], call.n) + 16
      [] call.op \in {"is_reserve_stale", "is_obligation_stale"} -> 10
      [] OTHER -> 0

TooShort ==
    /\ call.op \in BufferAccessors
    /\ ~account.mutBorrowed
    /\ Len(account.data) < RequiredLen

\* C11, as claimed: a buffer accessor called on a buffer shorter than the byte
\* range it needs returns an error value to its caller; it does not abort.
C11_ShortBufferIsAnError ==
    TooShort => (~result.ok /\ result # Panic)

----------------------------------------------------------------------------
(* C12 *)

\* the operations that read the account's buffer
Accessors == BufferAccessors \cup {"exchange_rate", "obligation_liquidity"}

\* C12: an accessor called while the account's buffer is mutably borrowed fails
\* at once with the borrow error, whatever the buffer holds and however long it
\* is: it returns no value and does not index the buffer.
C12_BorrowedFailsAtOnce ==
    (call.op \in Accessors /\ account.mutBorrowed)
        => result = Err("AccountBorrowFailed")

\* C12 witness: a mutably borrowed, empty buffer, on which any read would abort,
\* gives the borrow error
C12_Witness ==
    /\ account.mutBorrowed
    /\ Len(account.data) = 0
    /\ call.op = "obligation_liquidity"
    /\ result = Err("AccountBorrowFailed")

----------------------------------------------------------------------------
(* C13 *)

StaleAsked == call.op \in {"is_reserve_stale", "is_obligation_stale"}

\* C13: on a readable buffer is_reserve_stale and is_obligation_stale return true
\* exactly when the byte at offset 9 is 1, and false for every other byte.
C13_StaleIffByteIsOne ==
    (StaleAsked /\ ~account.mutBorrowed /\ Len(account.data) >= 10)
        => /\ account.data[9 + 1] = origin.stale
           /\ result = Ok(origin.stale = 1)

\* C13 witness: a reserve whose flag byte is 2 is reported as not stale
C13_Witness ==
    /\ IsReserve
    /\ call.op = "is_reserve_stale"
    /\ origin.stale = 2
    /\ result = Ok(FALSE)

----------------------------------------------------------------------------
(* C14 *)

\* C14: no call changes the account (the bytes of its buffer and its borrow
\* flag), whether the call succeeds or fails, and a call repeated with the same
\* arguments returns the same result.
C14_BufferNeverChanges ==
    [][/\ account' = account
       /\ (call' = call => result' = result)]_vars

\* C14 witness: try_serialize has returned success and the buffer still holds
\* exactly the bytes the lending program packed
C14_Witness ==
    /\ call.op = "try_serialize"
    /\ result = Ok("unit")
    /\ IsObligation
    /\ Len(origin.borrows) > 0
    /\ account.data = PackObligation(origin)

----------------------------------------------------------------------------
(* C15 *)

DepositMissing == call.deposit_index >= DepositCount

BorrowMissing == call.borrow_index >= BorrowCount

\* C15, as claimed: obligation_liquidity does not succeed when there is no entry at
\* deposit_index or at borrow_index, and calculate_liquidity does not succeed when
\* the obligation has no deposit or no borrow on the reserve: neither puts a zero
\* in the place of an amount it could not obtain.
C15_NoZeroForMissingAmount ==
    /\ (Liquidated /\ (DepositMissing \/ BorrowMissing)) => ~result.ok
    /\ (Calculated /\ (DepositPos(call.reserve) = 0 \/ BorrowPos(call.reserve) = 0))
          => ~result.ok

\* C15, amended: the entry accessors never put a default in the place of a missing
\* entry, and obligation_liquidity never does for an index at or past a nonzero
\* count; but obligation_liquidity takes zero for the deposit (the borrow) of an
\* obligation without deposits (borrows), whatever the index, and
\* calculate_liquidity takes zero for a deposit (a borrow) the obligation does not
\* have on the reserve, and both then go on as with an amount of zero.
C15_ZeroOnlyForAbsentSide ==
    /\ DepositRead => (result.ok <=> call.n < DepositCount)
    /\ BorrowRead => (result.ok <=> call.n < BorrowCount)
    /\ (Liquidated /\ result.ok) => (~DepositIndexOut /\ ~BorrowIndexOut)
    /\ (Liquidated /\ DepositCount = 0)
          => result = (IF BorrowWads.ok THEN try_sub(Decimal_zero, BorrowWads.val)
                       ELSE BorrowWads)
    /\ (Liquidated /\ BorrowCount = 0 /\ DepositLiquidity.ok)
          => result = Ok(Decimal_from(DepositLiquidity.val))
    /\ (Calculated /\ DepositPos(call.reserve) = 0)
          => result = net_liquidity(call.rate, 0, MatchedB(call.reserve))
    /\ (Calculated /\ BorrowPos(call.reserve) = 0)
          => result = net_liquidity(call.rate, MatchedD(call.reserve), Decimal_zero)

\* C15 witness: an obligation without deposits and without borrows, asked for the
\* entries at index 255, has a net liquidity of zero
C15_Witness ==
    /\ Liquidated
    /\ DepositCount = 0
    /\ BorrowCount = 0
    /\ call.deposit_index = 255
    /\ call.borrow_index = 255
    /\ result = Ok(Decimal_zero)

----------------------------------------------------------------------------
(* C16 *)

\* the result of the call c when it is made on the account acc
Apply(c, acc) ==
    CASE c.op = "reserve_ltv" -> reserve_ltv(acc)
      [] c.op = "reserve_available_liquidity" -> reserve_available_liquidity(acc)
      [] c.op = "reserve_borrowed_amount" -> reserve_borrowed_amount(acc)
      [] c.op = "reserve_market_price" -> reserve_market_price(acc)
      [] c.op = "reserve_oracle_pubkey" -> reserve_oracle_pubkey(acc)
      [] c.op = "reserve_total_liquidity" -> reserve_total_liquidity(acc)
      [] c.op = "reserve_liquidity_mint_pubkey" -> reserve_liquidity_mint_pubkey(acc)
      [] c.op = "reserve_lp_mint_pubkey" -> reserve_lp_mint_pubkey(acc)
      [] c.op = "reserve_mint_total" -> reserve_mint_total(acc)
      [] c.op = "reserve_borrow_fee" -> reserve_borrow_fee(acc)
      [] c.op = "exchange_rate" -> exchange_rate(acc)
      [] c.op = "is_reserve_stale" -> is_reserve_stale(acc)
      [] c.op = "is_obligation_stale" -> is_obligation_stale(acc)
      [] c.op = "obligation_deposits_count" -> obligation_deposits_count(acc)
      [] c.op = "obligation_borrows_count" -> obligation_borrows_count(acc)
      [] c.op = "obligation_deposit_amount" -> obligation_deposit_amount(acc, c.n)
      [] c.op = "obligation_borrow_amount_wads" -> obligation_borrow_amount_wads(acc, c.n)
      [] c.op = "obligation_liquidity" ->
            obligation_liquidity(acc, c.rate, c.deposit_index, c.borrow_index)

\* the account with byte 9 of its buffer set to s, every other byte as it is
WithStaleByte(acc, s) == [acc EXCEPT !.data[9 + 1] = s]

StaleBlind == call.op \in Accessors /\ ~StaleAsked /\ Len(account.data) >= 10

\* C16: staleness is reported and never enforced: an accessor other than
\* is_reserve_stale and is_obligation_stale, exchange_rate and obligation_liquidity
\* included, returns on a buffer that differs from this one in byte 9 only the
\* result it returns on this one.
C16_StaleByteIsNotRead ==
    StaleBlind =>
        /\ result = Apply(call, account)
        /\ \A s \in StaleBytes : Apply(call, WithStaleByte(account, s)) = result

\* C16 witness: a stale obligation still has its net liquidity computed
C16_Witness ==
    /\ Liquidated
    /\ origin.stale = 1
    /\ Len(account.data) = ObligationLen
    /\ account.data[9 + 1] = 1
    /\ DepositCount = 1
    /\ BorrowCount = 1
    /\ result.ok
    /\ result.val > 0

----------------------------------------------------------------------------
(* C17 *)

\* the entry at deposit_index is the first deposit on reserve id and the entry at
\* borrow_index is the first borrow on it
SameEntries(id) ==
    /\ DepositPos(id) = call.deposit_index + 1
    /\ BorrowPos(id) = call.borrow_index + 1

\* C17: when obligation_liquidity is asked for the entries that calculate_liquidity
\* matches for a reserve, at the same exchange rate, the one succeeds exactly when
\* the other does, and calculate_liquidity's whole number is then the floor of
\* obligation_liquidity's decimal.
C17_CalculateIsFloorOfObligationLiquidity ==
    Liquidated =>
        \A id \in ReserveIds :
            SameEntries(id) =>
                LET whole == calculate_liquidity(Deserialized, Pubkey(id), call.rate)
                IN  /\ whole.ok <=> result.ok
                    /\ result.ok => whole.val = result.val \div WAD

\* C17 witness: 100 deposited and 50.4 borrowed on reserve 1: 49.6, and 49
C17_Witness ==
    /\ Liquidated
    /\ SameEntries(1)
    /\ result.ok
    /\ result.val % WAD # 0
    /\ calculate_liquidity(Deserialized, Pubkey(1), call.rate) = Ok(result.val \div WAD)

----------------------------------------------------------------------------
(* The borrows of the account's data: each try_borrow_data() that succeeds makes
   a Ref, which is dropped when the function that made it returns, by its last
   expression or by a ? on the way.  The accessors run one borrow and one drop
   at a time, between the borrows of their caller. *)

MaxReaders == 2

\* AccountInfo::try_borrow_mut_data, the caller's exclusive borrow
try_borrow_mut_data(acc) ==
    IF acc.mutBorrowed \/ acc.readers > 0 THEN Err("AccountBorrowFailed")
    ELSE Ok(acc.data)

\* let bytes = account.try_borrow_data()?; .. Ok(..): one Ref, held to the return
RefsOfRead(acc) ==
    IF ~try_borrow_data(acc).ok THEN <<>> ELSE <<"acquire", "release">>

\* reserve_available_liquidity(account)?, then reserve_borrowed_amount(account)?
RefsOfTotalLiquidity(acc) ==
    RefsOfRead(acc)
        \o (IF reserve_available_liquidity(acc).ok THEN RefsOfRead(acc) ELSE <<>>)

\* reserve_mint_total(account)?, then reserve_total_liquidity(account)?
RefsOfExchangeRate(acc) ==
    RefsOfRead(acc)
        \o (IF reserve_mint_total(acc).ok THEN RefsOfTotalLiquidity(acc) ELSE <<>>)

\* bytes is held while obligation_deposits_count borrows again
RefsOfDepositAmount(acc) ==
    IF ~try_borrow_data(acc).ok THEN <<>>
    ELSE <<"acquire">> \o RefsOfRead(acc) \o <<"release">>

\* mutant: the Ref of obligation_borrow_amount_wads outlives the call
RefsOfBorrowAmountWadsLeaked(acc) ==
    IF ~try_borrow_data(acc).ok THEN <<>>
    ELSE <<"acquire">>
            \o RefsOfRead(acc)
            \o (IF obligation_deposits_count(acc).ok THEN RefsOfRead(acc) ELSE <<>>)

\* bytes is held while obligation_deposits_count and obligation_borrows_count
\* borrow again, one after the other
RefsOfBorrowAmountWads(acc) ==
    IF ~try_borrow_data(acc).ok THEN <<>>
    ELSE <<"acquire">>
            \o RefsOfRead(acc)
            \o (IF obligation_deposits_count(acc).ok THEN RefsOfRead(acc) ELSE <<>>)
            \o <<"release">>

\* obligation_liquidity holds no Ref of its own: the count, then the amount, of
\* the deposits, then of the borrows, each ? ending the call
RefsOfObligationLiquidity(acc, port_exchange_rate, deposit_index) ==
    LET deposits == obligation_deposits_count(acc)
        borrows == obligation_borrows_count(acc)
        deposit == obligation_liquidity_deposit(acc, port_exchange_rate, deposit_index)
    IN  RefsOfRead(acc)
            \o (IF deposits.ok /\ deposits.val # 0 THEN RefsOfDepositAmount(acc) ELSE <<>>)
            \o (IF ~deposit.ok THEN <<>>
                ELSE RefsOfRead(acc)
                        \o (IF borrows.ok /\ borrows.val # 0
                            THEN RefsOfBorrowAmountWads(acc) ELSE <<>>))

\* the borrows and drops of the call c on the account acc, in their order
RefsOf(c, acc) ==
    CASE c.op = "reserve_total_liquidity" -> RefsOfTotalLiquidity(acc)
      [] c.op = "exchange_rate" -> RefsOfExchangeRate(acc)
      [] c.op = "obligation_deposit_amount" -> RefsOfDepositAmount(acc)
      [] c.op = "obligation_borrow_amount_wads" -> RefsOfBorrowAmountWads(acc)
      [] c.op = "obligation_liquidity" ->
            RefsOfObligationLiquidity(acc, c.rate, c.deposit_index)
      [] OTHER -> RefsOfRead(acc)

\* the calls a caller makes on an account of the kind
CallsOn(kind) ==
    IF kind = "reserve"
    THEN { [op |-> o] : o \in {"reserve_ltv", "reserve_available_liquidity",
                               "reserve_borrowed_amount", "reserve_market_price",
                               "reserve_oracle_pubkey", "reserve_total_liquidity",
                               "reserve_liquidity_mint_pubkey", "reserve_lp_mint_pubkey",
                               "reserve_mint_total", "reserve_borrow_fee",
                               "exchange_rate", "is_reserve_stale"} }
    ELSE { [op |-> o] : o \in {"obligation_deposits_count", "obligation_borrows_count",
                               "is_obligation_stale"} }
            \cup { [op |-> o, n |-> n] :
                     o \in {"obligation_deposit_amount", "obligation_borrow_amount_wads"},
                     n \in {0, 1} }
            \cup { [op |-> "obligation_liquidity", rate |-> rate,
                    deposit_index |-> di, borrow_index |-> bi] :
                     rate \in RateInputs, di \in {0, 1}, bi \in {0, 1} }

NoCall == [op |-> "none", pc |-> "idle"]

InitBorrow ==
    /\ \/ \E o \in RawObligations :
            /\ origin = o
            /\ account = [kind |-> "obligation", data |-> PackObligation(o),
                          mutBorrowed |-> FALSE, readers |-> 0]
       \/ \E r \in RawReserves :
            /\ origin = r
            /\ account = [kind |-> "reserve", data |-> PackReserve(r),
                          mutBorrowed |-> FALSE, readers |-> 0]
    /\ call = NoCall
    /\ result = NotCalled

Running == call.pc = "running"

Returned == call.pc = "returned"

\* the caller takes a shared borrow of its own
CallerBorrow ==
    /\ ~Running
    /\ try_borrow_data(account).ok
    /\ account.readers < MaxReaders
    /\ account' = [account EXCEPT !.readers = @ + 1]
    /\ call' = NoCall
    /\ result' = NotCalled
    /\ UNCHANGED origin

\* the caller takes the exclusive borrow
CallerBorrowMut ==
    /\ ~Running
    /\ try_borrow_mut_data(account).ok
    /\ account' = [account EXCEPT !.mutBorrowed = TRUE]
    /\ call' = NoCall
    /\ result' = NotCalled
    /\ UNCHANGED origin

\* the caller drops one of its borrows
CallerDrop ==
    /\ ~Running
    /\ \/ /\ account.mutBorrowed
          /\ account' = [account EXCEPT !.mutBorrowed = FALSE]
       \/ /\ account.readers > 0
          /\ account' = [account EXCEPT !.readers = @ - 1]
    /\ call' = NoCall
    /\ result' = NotCalled
    /\ UNCHANGED origin

\* the caller calls an accessor; before and exclusive keep the borrows at the call
Invoke ==
    /\ ~Running
    /\ \E c \in CallsOn(account.kind) :
          call' = c @@ [pc |-> "running",
                        todo |-> RefsOf(c, account),
                        before |-> account.readers,
                        exclusive |-> account.mutBorrowed]
    /\ result' = NotCalled
    /\ UNCHANGED <<account, origin>>

\* the next try_borrow_data() of the running accessor
Acquire ==
    /\ Running
    /\ call.todo # <<>>
    /\ Head(call.todo) = "acquire"
    /\ try_borrow_data(account).ok
    /\ account' = [account EXCEPT !.readers = @ + 1]
    /\ call' = [call EXCEPT !.todo = Tail(@)]
    /\ UNCHANGED <<origin, result>>

\* a Ref of the running accessor goes out of scope
Release ==
    /\ Running
    /\ call.todo # <<>>
    /\ Head(call.todo) = "release"
    /\ account' = [account EXCEPT !.readers = @ - 1]
    /\ call' = [call EXCEPT !.todo = Tail(@)]
    /\ UNCHANGED <<origin, result>>

\* the running accessor returns to the caller
Return ==
    /\ Running
    /\ call.todo = <<>>
    /\ call' = [call EXCEPT !.pc = "returned"]
    /\ result' = Apply(call, account)
    /\ UNCHANGED <<account, origin>>

NextBorrow ==
    \/ CallerBorrow
    \/ CallerBorrowMut
    \/ CallerDrop
    \/ Invoke
    \/ Acquire
    \/ Release
    \/ Return

SpecBorrow == InitBorrow /\ [][NextBorrow]_vars

----------------------------------------------------------------------------
(* C18 *)

\* C18: a running accessor never touches the exclusive flag; each of its borrows,
\* nested ones included, succeeds when the caller holds no exclusive borrow; and
\* when it returns, with a value or an error, the account has as many borrows as
\* at the call, so that a caller who held none can borrow exclusively.
C18_BorrowsAreSharedAndReleased ==
    /\ Running =>
          /\ account.mutBorrowed = call.exclusive
          /\ account.readers >= call.before
          /\ (call.todo # <<>> /\ Head(call.todo) = "acquire")
                => try_borrow_data(account).ok
    /\ Returned =>
          /\ account.mutBorrowed = call.exclusive
          /\ account.readers = call.before
          /\ ~call.exclusive => result # Err("AccountBorrowFailed")
          /\ (~call.exclusive /\ call.before = 0) => try_borrow_mut_data(account).ok

\* C18 witness: obligation_liquidity returned a value to a caller that held one
\* shared borrow of its own, and that borrow is the only one left
C18_Witness ==
    /\ Returned
    /\ call.op = "obligation_liquidity"
    /\ DepositCount = 1
    /\ BorrowCount = 1
    /\ result.ok
    /\ call.before = 1
    /\ account.readers = 1

====
